---- MODULE Spec2Model ----
(***************************************************************************)
(* Model of the two scripts of the RMBG-2.0 benchmark repository:          *)
(*   creat_generated_benchmark.py  sanitize_filename, generate_images      *)
(*   compare_bria_models.py        the comparison loop over a folder       *)
(* Text (prompts, file names) is a sequence of Unicode code points, so     *)
(* that formatting, filtering and suffix tests are computed, not assumed.  *)
(***************************************************************************)
EXTENDS Integers, Sequences, FiniteSets, TLC

VARIABLES
    \* sanitize_filename applied to one prompt
    prompt, sanitized, sanPc,
    \* generate_images: its arguments, the two loop positions, the seed drawn
    \* and the seed installed in the generator, where the run stands, which
    \* call has raised, and what the run has done so far, in order
    prompts, num_images_per_prompt, idx, i, random_seed, manual_seed,
    genPc, genRaised, seedDraws, pipeCalls, saved,
    \* compare_bria_models.py: the input folder's entries, those os.listdir
    \* has not yielded yet, the loop variable, where the run stands, which
    \* call has raised, the sizes of the images of the current entry, the
    \* canvas (size, labels drawn, panels pasted), and what the run has done
    listing, todo, cur_filename, cmpPc, cmpRaised,
    original_size, size_1_4, size_2_0, green_1_4, green_2_0,
    combined_size, labels, pastes,
    segCalls, cmpSaved, printed,
    \* the green-screen step on the pixels of one image
    image, once, twice, blendPc,
    \* the file names of two images: the position, prompt and seed of each,
    \* and the two names once formatted
    pos_a, prompt_a, seed_a, pos_b, prompt_b, seed_b, name_a, name_b, namePc

sanVars == <<prompt, sanitized, sanPc>>
genVars == <<prompts, num_images_per_prompt, idx, i, random_seed, manual_seed,
             genPc, genRaised, seedDraws, pipeCalls, saved>>
cmpVars == <<listing, todo, cur_filename, cmpPc, cmpRaised,
             original_size, size_1_4, size_2_0, green_1_4, green_2_0,
             combined_size, labels, pastes, segCalls, cmpSaved, printed>>
blendVars == <<image, once, twice, blendPc>>
nameVars == <<pos_a, prompt_a, seed_a, pos_b, prompt_b, seed_b, name_a, name_b, namePc>>
vars == <<sanVars, genVars, cmpVars, blendVars, nameVars>>

Min(a, b) == IF a < b THEN a ELSE b

(***************************************************************************)
(* Bounds of the explored inputs.                                          *)
(***************************************************************************)
MaxUnit == 2      \* longest repeated unit of a generated prompt
MaxReps == 52     \* most repetitions of that unit (a unit with one kept character passes 50)
MaxImages == 4    \* most images of one generate_images run (prompts * images per prompt)
SeedSpan == 1     \* seeds tried above the lowest one, besides the highest
MaxFiles == 2     \* most entries of the input folder
MaxDim == 2       \* largest width and height of an image
AlphaSpan == 1    \* alpha values tried just below 255
MaxPos == 10      \* highest 0-based prompt position of a formatted name (two digits as 1-based)

(***************************************************************************)
(* A script that is not running: its variables at rest.                    *)
(***************************************************************************)
SanIdle ==
    /\ prompt = <<>>
    /\ sanitized = <<>>
    /\ sanPc = "idle"

GenIdle ==
    /\ prompts = <<>>
    /\ num_images_per_prompt = 0
    /\ idx = 0
    /\ i = 0
    /\ random_seed = 0
    /\ manual_seed = 0
    /\ genPc = "idle"
    /\ genRaised = "none"
    /\ seedDraws = <<>>
    /\ pipeCalls = <<>>
    /\ saved = <<>>

CmpIdle ==
    /\ listing = {}
    /\ todo = {}
    /\ cur_filename = <<>>
    /\ cmpPc = "idle"
    /\ cmpRaised = "none"
    /\ original_size = <<0, 0>>
    /\ size_1_4 = <<0, 0>>
    /\ size_2_0 = <<0, 0>>
    /\ green_1_4 = <<0, 0>>
    /\ green_2_0 = <<0, 0>>
    /\ combined_size = <<0, 0>>
    /\ labels = <<>>
    /\ pastes = <<>>
    /\ segCalls = <<>>
    /\ cmpSaved = <<>>
    /\ printed = <<>>

BlendIdle ==
    /\ image = <<>>
    /\ once = <<>>
    /\ twice = <<>>
    /\ blendPc = "idle"

NameIdle ==
    /\ pos_a = 0
    /\ prompt_a = <<>>
    /\ seed_a = 0
    /\ pos_b = 0
    /\ prompt_b = <<>>
    /\ seed_b = 0
    /\ name_a = <<>>
    /\ name_b = <<>>
    /\ namePc = "idle"

(***************************************************************************)
(* creat_generated_benchmark.py: sanitize_filename                        *)
(***************************************************************************)
\* [a-zA-Z0-9] of the pattern
IsAsciiAlnum(c) == c \in 48..57 \/ c \in 65..90 \/ c \in 97..122

\* \s of a Python 3 str pattern: every Unicode whitespace character
IsWhitespace(c) ==
    \/ c \in 9..13
    \/ c \in 28..32
    \/ c \in {133, 160, 5760, 8232, 8233, 8239, 8287, 12288}
    \/ c \in 8192..8202

\* re.sub(r'[^a-zA-Z0-9\s]', '', prompt)
ReSub(s) == SelectSeq(s, LAMBDA c : IsAsciiAlnum(c) \/ IsWhitespace(c))

\* sanitized.replace(' ', '_'): only U+0020 becomes U+005F
ReplaceSpace(s) == [k \in 1..Len(s) |-> IF s[k] = 32 THEN 95 ELSE s[k]]

\* the length limit of sanitized[:50]
FilenameLimit == 50

\* sanitized[:50]
Truncate(s) == SubSeq(s, 1, Min(Len(s), FilenameLimit))

\* a plausible slip: cut the prompt before filtering it
sanitize_filename_cutFirst(p) == ReplaceSpace(ReSub(Truncate(p)))

sanitize_filename(p) == Truncate(ReplaceSpace(ReSub(p)))

(***************************************************************************)
(* Prompts tried on sanitize_filename: a unit of at most MaxUnit           *)
(* characters repeated up to MaxReps times. The alphabet has a lower and   *)
(* an upper case letter, a digit, a space, a tab, a newline, punctuation,  *)
(* an underscore, a no-break space and a non-ASCII letter.                 *)
(***************************************************************************)
Alphabet == {97, 90, 55, 32, 9, 10, 33, 95, 160, 233}

Units == UNION {[1..n -> Alphabet] : n \in 1..MaxUnit}

RECURSIVE Rep(_, _)
Rep(u, n) == IF n = 0 THEN <<>> ELSE u \o Rep(u, n - 1)

SanInit ==
    /\ \E u \in Units, n \in 0..MaxReps : prompt = Rep(u, n)
    /\ sanitized = <<>>
    /\ sanPc = "call"
    /\ GenIdle
    /\ CmpIdle
    /\ BlendIdle
    /\ NameIdle

Sanitize ==
    /\ sanPc = "call"
    /\ sanitized' = sanitize_filename(prompt)
    /\ sanPc' = "returned"
    /\ UNCHANGED prompt
    /\ UNCHANGED <<genVars, cmpVars, blendVars, nameVars>>

SanNext == Sanitize

SpecSanitize == SanInit /\ [][SanNext]_vars

(***************************************************************************)
(* creat_generated_benchmark.py: generate_images                          *)
(***************************************************************************)
\* str(n) of a non-negative integer, as an f-string renders it
RECURSIVE Str(_)
Str(n) == IF n < 10 THEN <<48 + n>> ELSE Str(n \div 10) \o <<48 + (n % 10)>>

\* a plausible slip: the 0-based position in the name
filename_zeroBased(pos, p, seed) ==
    Str(pos) \o <<95>> \o sanitize_filename(p)
        \o <<95, 115, 101, 101, 100, 95>> \o Str(seed) \o <<46, 112, 110, 103>>

\* a plausible slip: no underscore between the position and the prompt
filename_noSeparator(pos, p, seed) ==
    Str(pos + 1) \o sanitize_filename(p)
        \o <<95, 115, 101, 101, 100, 95>> \o Str(seed) \o <<46, 112, 110, 103>>

\* f"{idx+1}_{sanitize_filename(prompt)}_seed_{random_seed}.png"
filename(pos, p, seed) ==
    Str(pos + 1) \o <<95>> \o sanitize_filename(p)
        \o <<95, 115, 101, 101, 100, 95>> \o Str(seed) \o <<46, 112, 110, 103>>

\* random.randint(1, 1000000): both ends included
SeedLow == 1
SeedHigh == 1000000

\* the seeds the model draws: the lowest ones and the highest
SeedChoices == (SeedLow..(SeedLow + SeedSpan)) \cup {SeedHigh}

\* the prompts the model runs on: "1 a!" and tab and "b"; "x " sixty
\* characters long, which sanitize_filename cuts
GenPrompts == {<<49, 32, 97, 33, 9, 98>>, Rep(<<120, 32>>, 30)}

\* where the two for loops stand after the body ran at (pos, rep)
NextPos(pos, rep) ==
    IF rep + 1 < num_images_per_prompt THEN <<pos, rep + 1>> ELSE <<pos + 1, 0>>

\* a plausible slip: an exception handler around the body that goes on
\* with the next image
AfterRaise_goOn(pos, rep) ==
    IF NextPos(pos, rep)[1] < Len(prompts) THEN "seed" ELSE "done"

\* nothing in generate_images catches: an exception leaves the function
AfterRaise(pos, rep) == "raised"

GenInit ==
    /\ \E n \in 0..MaxImages, k \in 0..MaxImages :
          /\ n * k <= MaxImages
          /\ prompts \in [1..n -> GenPrompts]
          /\ num_images_per_prompt = k
          /\ genPc = IF n = 0 \/ k = 0 THEN "done" ELSE "seed"
          /\ idx = IF k = 0 THEN n ELSE 0
    /\ i = 0
    /\ random_seed = 0
    /\ manual_seed = 0
    /\ genRaised = "none"
    /\ seedDraws = <<>>
    /\ pipeCalls = <<>>
    /\ saved = <<>>
    /\ SanIdle
    /\ CmpIdle
    /\ BlendIdle
    /\ NameIdle

\* a plausible slip: the seed drawn but not installed in the generator
DrawSeed_notInstalled ==
    /\ genPc = "seed"
    /\ \E s \in SeedChoices :
          /\ random_seed' = s
          /\ seedDraws' = Append(seedDraws, [idx |-> idx, i |-> i, seed |-> s])
    /\ genPc' = "pipe"
    /\ UNCHANGED <<prompts, num_images_per_prompt, idx, i, manual_seed, genRaised,
                   pipeCalls, saved>>
    /\ UNCHANGED <<sanVars, cmpVars, blendVars, nameVars>>

\* random_seed = random.randint(1, 1000000); torch.manual_seed(random_seed)
DrawSeed ==
    /\ genPc = "seed"
    /\ \E s \in SeedChoices :
          /\ random_seed' = s
          /\ manual_seed' = s
          /\ seedDraws' = Append(seedDraws, [idx |-> idx, i |-> i, seed |-> s])
    /\ genPc' = "pipe"
    /\ UNCHANGED <<prompts, num_images_per_prompt, idx, i, genRaised, pipeCalls, saved>>
    /\ UNCHANGED <<sanVars, cmpVars, blendVars, nameVars>>

\* image = pipe(prompt, num_inference_steps=8, guidance_scale=1.0).images[0]
PipeReturns ==
    /\ genPc = "pipe"
    /\ pipeCalls' = Append(pipeCalls,
                           [idx |-> idx, i |-> i, prompt |-> prompts[idx + 1],
                            seed |-> manual_seed])
    /\ genPc' = "save"
    /\ UNCHANGED <<prompts, num_images_per_prompt, idx, i, random_seed, manual_seed,
                   genRaised, seedDraws, saved>>
    /\ UNCHANGED <<sanVars, cmpVars, blendVars, nameVars>>

\* the same call raising
PipeRaises ==
    /\ genPc = "pipe"
    /\ pipeCalls' = Append(pipeCalls,
                           [idx |-> idx, i |-> i, prompt |-> prompts[idx + 1],
                            seed |-> manual_seed])
    /\ genRaised' = "pipe"
    /\ genPc' = AfterRaise(idx, i)
    /\ idx' = IF genPc' = "raised" THEN idx ELSE NextPos(idx, i)[1]
    /\ i' = IF genPc' = "raised" THEN i ELSE NextPos(idx, i)[2]
    /\ UNCHANGED <<prompts, num_images_per_prompt, random_seed, manual_seed,
                   seedDraws, saved>>
    /\ UNCHANGED <<sanVars, cmpVars, blendVars, nameVars>>

\* a plausible slip: the write put off, the loop going on to the next image
SaveImage_putOff ==
    /\ genPc = "save"
    /\ idx' = NextPos(idx, i)[1]
    /\ i' = NextPos(idx, i)[2]
    /\ genPc' = IF idx' < Len(prompts) THEN "seed" ELSE "done"
    /\ UNCHANGED <<prompts, num_images_per_prompt, random_seed, manual_seed,
                   genRaised, seedDraws, pipeCalls, saved>>
    /\ UNCHANGED <<sanVars, cmpVars, blendVars, nameVars>>

\* filename = ...; image.save(os.path.join(output_path, filename)); print(...)
SaveImage ==
    /\ genPc = "save"
    /\ saved' = Append(saved,
                       [idx |-> idx, i |-> i, seed |-> random_seed,
                        name |-> filename(idx, prompts[idx + 1], random_seed)])
    /\ idx' = NextPos(idx, i)[1]
    /\ i' = NextPos(idx, i)[2]
    /\ genPc' = IF idx' < Len(prompts) THEN "seed" ELSE "done"
    /\ UNCHANGED <<prompts, num_images_per_prompt, random_seed, manual_seed,
                   genRaised, seedDraws, pipeCalls>>
    /\ UNCHANGED <<sanVars, cmpVars, blendVars, nameVars>>

\* image.save raising: nothing is written
SaveRaises ==
    /\ genPc = "save"
    /\ genRaised' = "save"
    /\ genPc' = AfterRaise(idx, i)
    /\ idx' = IF genPc' = "raised" THEN idx ELSE NextPos(idx, i)[1]
    /\ i' = IF genPc' = "raised" THEN i ELSE NextPos(idx, i)[2]
    /\ UNCHANGED <<prompts, num_images_per_prompt, random_seed, manual_seed,
                   seedDraws, pipeCalls, saved>>
    /\ UNCHANGED <<sanVars, cmpVars, blendVars, nameVars>>

GenNext == DrawSeed \/ PipeReturns \/ PipeRaises \/ SaveImage \/ SaveRaises

SpecGenerate == GenInit /\ [][GenNext]_vars

(***************************************************************************)
(* compare_bria_models.py: the loop over the input folder                  *)
(***************************************************************************)
\* str.endswith
EndsWith(s, suffix) ==
    /\ Len(s) >= Len(suffix)
    /\ SubSeq(s, Len(s) - Len(suffix) + 1, Len(s)) = suffix

\* str.lower on ASCII letters
Lower(s) == [k \in 1..Len(s) |-> IF s[k] \in 65..90 THEN s[k] + 32 ELSE s[k]]

\* a plausible slip: the extension compared without regard to case
IsImageFile_anyCase(name) ==
    EndsWith(Lower(name), <<46, 106, 112, 103>>) \/ EndsWith(Lower(name), <<46, 112, 110, 103>>)

\* filename.endswith(".jpg") or filename.endswith(".png")
IsImageFile(name) ==
    EndsWith(name, <<46, 106, 112, 103>>) \/ EndsWith(name, <<46, 112, 110, 103>>)

\* f"combined_{filename}"
CombinedName(name) == <<99, 111, 109, 98, 105, 110, 101, 100, 95>> \o name

\* font_size = 30
font_size == 30

\* the mode of Image.new("RGBA", ...): the canvas has an alpha band
combined_mode == "RGBA"

\* Image.save picks the format from the extension of the path
SaveFormat(name) == IF EndsWith(Lower(name), <<46, 106, 112, 103>>) THEN "JPEG" ELSE "PNG"

\* the JPEG writer takes no image with an alpha band; PNG takes RGBA
CanWrite(format, mode) ==
    IF format = "JPEG" THEN mode \in {"1", "L", "RGB", "RGBX", "CMYK", "YCbCr"} ELSE TRUE

\* a plausible slip: the canvas three times as wide as the original
CanvasSize_threeOriginals(o, a, b) == <<3 * o[1], o[2] + font_size + 10>>

\* combined_width = original_image.width + green_bg_1_4.width + green_bg_2_0.width
\* Image.new("RGBA", (combined_width, original_image.height + font_size + 10))
CanvasSize(o, a, b) == <<o[1] + a[1] + b[1], o[2] + font_size + 10>>

\* a plausible slip: the third panel placed as if the second were as wide as
\* the original
PasteBoxes_equalWidths(o, a, b) ==
    << [panel |-> "original", x |-> 0, y |-> font_size + 10, w |-> o[1], h |-> o[2]],
       [panel |-> "green_bg_1_4", x |-> o[1], y |-> font_size + 10, w |-> a[1], h |-> a[2]],
       [panel |-> "green_bg_2_0", x |-> o[1] + o[1], y |-> font_size + 10,
        w |-> b[1], h |-> b[2]] >>

\* the three combined_image.paste calls, in order: what is pasted, the
\* upper left corner given, and the size of the pasted image
PasteBoxes(o, a, b) ==
    << [panel |-> "original", x |-> 0, y |-> font_size + 10, w |-> o[1], h |-> o[2]],
       [panel |-> "green_bg_1_4", x |-> o[1], y |-> font_size + 10, w |-> a[1], h |-> a[2]],
       [panel |-> "green_bg_2_0", x |-> o[1] + a[1], y |-> font_size + 10,
        w |-> b[1], h |-> b[2]] >>

\* the three draw.text calls
Labels(o, a, b) ==
    << [text |-> "Original Image", x |-> (o[1] \div 2) - font_size, y |-> 5],
       [text |-> "RMBG 1.4", x |-> o[1] + (a[1] \div 2) - font_size, y |-> 5],
       [text |-> "RMBG 2.0", x |-> o[1] + a[1] + (b[1] \div 2) - font_size, y |-> 5] >>

\* entries an input folder may hold: cat.jpg dog.png e.png a.JPG b.jpeg
\* c.PNG n.txt and jpg (no dot)
CatJpg == <<99, 97, 116, 46, 106, 112, 103>>
DogPng == <<100, 111, 103, 46, 112, 110, 103>>
EPng == <<101, 46, 112, 110, 103>>
AUpperJpg == <<97, 46, 74, 80, 71>>
BJpeg == <<98, 46, 106, 112, 101, 103>>
CUpperPng == <<99, 46, 80, 78, 71>>
NTxt == <<110, 46, 116, 120, 116>>
JpgNoDot == <<106, 112, 103>>

Entries == {CatJpg, DogPng, EPng, AUpperJpg, BJpeg, CUpperPng, NTxt, JpgNoDot}

Sizes == (1..MaxDim) \X (1..MaxDim)

\* no try/except in the script: an exception ends it
CmpAfterRaise == "raised"

CmpInit ==
    /\ listing \in {d \in SUBSET Entries : Cardinality(d) <= MaxFiles}
    /\ todo = listing
    /\ cur_filename = <<>>
    /\ cmpPc = "listdir"
    /\ cmpRaised = "none"
    /\ original_size = <<0, 0>>
    /\ size_1_4 = <<0, 0>>
    /\ size_2_0 = <<0, 0>>
    /\ green_1_4 = <<0, 0>>
    /\ green_2_0 = <<0, 0>>
    /\ combined_size = <<0, 0>>
    /\ labels = <<>>
    /\ pastes = <<>>
    /\ segCalls = <<>>
    /\ cmpSaved = <<>>
    /\ printed = <<>>
    /\ SanIdle
    /\ GenIdle
    /\ BlendIdle
    /\ NameIdle

\* for filename in os.listdir(...): the next entry, in no particular order;
\* if filename.endswith(".jpg") or filename.endswith(".png"):
\*     print(f"Processing {filename}...")
NextEntry ==
    /\ cmpPc = "listdir"
    /\ \E name \in todo :
          /\ cur_filename' = name
          /\ todo' = todo \ {name}
          /\ IF IsImageFile(name)
             THEN /\ printed' = Append(printed, [msg |-> "Processing", file |-> name])
                  /\ cmpPc' = "open"
             ELSE /\ printed' = printed
                  /\ cmpPc' = "listdir"
    /\ UNCHANGED <<listing, cmpRaised, original_size, size_1_4, size_2_0, green_1_4,
                   green_2_0, combined_size, labels, pastes, segCalls, cmpSaved>>
    /\ UNCHANGED <<sanVars, genVars, blendVars, nameVars>>

\* the for loop running out of entries
EndOfListing ==
    /\ cmpPc = "listdir"
    /\ todo = {}
    /\ cmpPc' = "done"
    /\ UNCHANGED <<listing, todo, cur_filename, cmpRaised, original_size, size_1_4,
                   size_2_0, green_1_4, green_2_0, combined_size, labels, pastes,
                   segCalls, cmpSaved, printed>>
    /\ UNCHANGED <<sanVars, genVars, blendVars, nameVars>>

\* original_image = Image.open(image_path)
OpenImage ==
    /\ cmpPc = "open"
    /\ original_size' \in Sizes
    /\ cmpPc' = "pipe_1_4"
    /\ UNCHANGED <<listing, todo, cur_filename, cmpRaised, size_1_4, size_2_0, green_1_4,
                   green_2_0, combined_size, labels, pastes, segCalls, cmpSaved, printed>>
    /\ UNCHANGED <<sanVars, genVars, blendVars, nameVars>>

\* Image.open raising on an unreadable file
OpenRaises ==
    /\ cmpPc = "open"
    /\ cmpRaised' = "open"
    /\ cmpPc' = CmpAfterRaise
    /\ UNCHANGED <<listing, todo, cur_filename, original_size, size_1_4, size_2_0,
                   green_1_4, green_2_0, combined_size, labels, pastes, segCalls,
                   cmpSaved, printed>>
    /\ UNCHANGED <<sanVars, genVars, blendVars, nameVars>>

\* pillow_image_1_4 = pipe_1_4(image_path)
\* green_bg_1_4 = Image.new("RGBA", pillow_image_1_4.size, (0, 255, 0)); paste
Segment_1_4 ==
    /\ cmpPc = "pipe_1_4"
    /\ segCalls' = Append(segCalls, [model |-> "RMBG-1.4", file |-> cur_filename])
    /\ size_1_4' \in Sizes
    /\ green_1_4' = size_1_4'
    /\ cmpPc' = "birefnet"
    /\ UNCHANGED <<listing, todo, cur_filename, cmpRaised, original_size, size_2_0,
                   green_2_0, combined_size, labels, pastes, cmpSaved, printed>>
    /\ UNCHANGED <<sanVars, genVars, blendVars, nameVars>>

\* pipe_1_4 raising
Segment_1_4_Raises ==
    /\ cmpPc = "pipe_1_4"
    /\ segCalls' = Append(segCalls, [model |-> "RMBG-1.4", file |-> cur_filename])
    /\ cmpRaised' = "pipe_1_4"
    /\ cmpPc' = CmpAfterRaise
    /\ UNCHANGED <<listing, todo, cur_filename, original_size, size_1_4, size_2_0,
                   green_1_4, green_2_0, combined_size, labels, pastes, cmpSaved, printed>>
    /\ UNCHANGED <<sanVars, genVars, blendVars, nameVars>>

\* preds = birefnet(input_image)...; the mask resized to original_image.size;
\* image_rmbg_2 = original_image.copy(); putalpha; green_bg_2_0 of its size
Segment_2_0 ==
    /\ cmpPc = "birefnet"
    /\ segCalls' = Append(segCalls, [model |-> "RMBG-2.0", file |-> cur_filename])
    /\ size_2_0' = original_size
    /\ green_2_0' = size_2_0'
    /\ cmpPc' = "combine"
    /\ UNCHANGED <<listing, todo, cur_filename, cmpRaised, original_size, size_1_4,
                   green_1_4, combined_size, labels, pastes, cmpSaved, printed>>
    /\ UNCHANGED <<sanVars, genVars, blendVars, nameVars>>

\* the transform or birefnet raising
Segment_2_0_Raises ==
    /\ cmpPc = "birefnet"
    /\ segCalls' = Append(segCalls, [model |-> "RMBG-2.0", file |-> cur_filename])
    /\ cmpRaised' = "birefnet"
    /\ cmpPc' = CmpAfterRaise
    /\ UNCHANGED <<listing, todo, cur_filename, original_size, size_1_4, size_2_0,
                   green_1_4, green_2_0, combined_size, labels, pastes, cmpSaved, printed>>
    /\ UNCHANGED <<sanVars, genVars, blendVars, nameVars>>

\* the canvas, the three titles and the three pastes
Combine ==
    /\ cmpPc = "combine"
    /\ combined_size' = CanvasSize(original_size, green_1_4, green_2_0)
    /\ labels' = Labels(original_size, green_1_4, green_2_0)
    /\ pastes' = PasteBoxes(original_size, green_1_4, green_2_0)
    /\ cmpPc' = "save"
    /\ UNCHANGED <<listing, todo, cur_filename, cmpRaised, original_size, size_1_4,
                   size_2_0, green_1_4, green_2_0, segCalls, cmpSaved, printed>>
    /\ UNCHANGED <<sanVars, genVars, blendVars, nameVars>>

\* combined_image.save(output_file_path); print(f"Saved combined image to ...")
SaveCombined ==
    /\ cmpPc = "save"
    /\ CanWrite(SaveFormat(CombinedName(cur_filename)), combined_mode)
    /\ cmpSaved' = Append(cmpSaved, [name |-> CombinedName(cur_filename),
                                     source |-> cur_filename, size |-> combined_size])
    /\ printed' = Append(printed, [msg |-> "Saved", file |-> cur_filename])
    /\ cmpPc' = "listdir"
    /\ UNCHANGED <<listing, todo, cur_filename, cmpRaised, original_size, size_1_4,
                   size_2_0, green_1_4, green_2_0, combined_size, labels, pastes, segCalls>>
    /\ UNCHANGED <<sanVars, genVars, blendVars, nameVars>>

\* combined_image.save raising OSError: the writer of the format chosen by
\* the extension cannot write the canvas' mode
SaveRaisesMode ==
    /\ cmpPc = "save"
    /\ ~CanWrite(SaveFormat(CombinedName(cur_filename)), combined_mode)
    /\ cmpRaised' = "save_mode"
    /\ cmpPc' = CmpAfterRaise
    /\ UNCHANGED <<listing, todo, cur_filename, original_size, size_1_4, size_2_0,
                   green_1_4, green_2_0, combined_size, labels, pastes, segCalls,
                   cmpSaved, printed>>
    /\ UNCHANGED <<sanVars, genVars, blendVars, nameVars>>

\* combined_image.save raising on the disk write
SaveRaisesIO ==
    /\ cmpPc = "save"
    /\ CanWrite(SaveFormat(CombinedName(cur_filename)), combined_mode)
    /\ cmpRaised' = "save_io"
    /\ cmpPc' = CmpAfterRaise
    /\ UNCHANGED <<listing, todo, cur_filename, original_size, size_1_4, size_2_0,
                   green_1_4, green_2_0, combined_size, labels, pastes, segCalls,
                   cmpSaved, printed>>
    /\ UNCHANGED <<sanVars, genVars, blendVars, nameVars>>

CmpNext ==
    \/ NextEntry
    \/ EndOfListing
    \/ OpenImage
    \/ OpenRaises
    \/ Segment_1_4
    \/ Segment_1_4_Raises
    \/ Segment_2_0
    \/ Segment_2_0_Raises
    \/ Combine
    \/ SaveCombined
    \/ SaveRaisesMode
    \/ SaveRaisesIO

SpecCompare == CmpInit /\ [][CmpNext]_vars

(***************************************************************************)
(* compare_bria_models.py: the green-screen step, pixel by pixel. A pixel  *)
(* is <<R, G, B, A>>, an image the sequence of its pixels.                 *)
(***************************************************************************)
\* a plausible slip: a shift in place of the division by 255
Div255_shift(a) == a \div 256

\* the rounding division by 255 of the paste: (t + (t >> 8)) >> 8, t = a + 128
Div255(a) == LET t == a + 128 IN ((t \div 256) + t) \div 256

\* Image.new("RGBA", size, (0, 255, 0)): an opaque green pixel
Green == <<0, 255, 0, 255>>

\* paste under a mask, one pixel: every band of the pasted pixel weighted by
\* the mask, the background by the rest
PasteMasked(bg, px, mask) == [b \in 1..4 |-> Div255(bg[b] * (255 - mask) + px[b] * mask)]

\* green_bg = Image.new("RGBA", im.size, (0, 255, 0)); green_bg.paste(im, (0, 0), im):
\* the mask is the pasted image's own alpha band
GreenScreen(im) == [k \in 1..Len(im) |-> PasteMasked(Green, im[k], im[k][4])]

AlphaChoices == {0, 128} \cup ((255 - AlphaSpan)..255)

Pixels == {0, 100, 255} \X {0, 100, 255} \X {0, 100, 255} \X AlphaChoices

BlendInit ==
    /\ \E n \in {1, 2} : image \in [1..n -> Pixels]
    /\ once = <<>>
    /\ twice = <<>>
    /\ blendPc = "source"
    /\ SanIdle
    /\ GenIdle
    /\ CmpIdle
    /\ NameIdle

\* the green-screen step applied to the image
GreenScreenOnce ==
    /\ blendPc = "source"
    /\ once' = GreenScreen(image)
    /\ blendPc' = "once"
    /\ UNCHANGED <<image, twice>>
    /\ UNCHANGED <<sanVars, genVars, cmpVars, nameVars>>

\* the green-screen step applied to its own output
GreenScreenAgain ==
    /\ blendPc = "once"
    /\ twice' = GreenScreen(once)
    /\ blendPc' = "twice"
    /\ UNCHANGED <<image, once>>
    /\ UNCHANGED <<sanVars, genVars, cmpVars, nameVars>>

BlendNext == GreenScreenOnce \/ GreenScreenAgain

SpecBlend == BlendInit /\ [][BlendNext]_vars

(***************************************************************************)
(* creat_generated_benchmark.py: the file names of two images of one run.  *)
(***************************************************************************)
\* prompts whose sanitized form starts with a digit or an underscore, or is
\* empty: "x", "1x", "1 x", " x", "" and "1 seed 1"
NamePrompts ==
    {<<120>>, <<49, 120>>, <<49, 32, 120>>, <<32, 120>>, <<>>,
     <<49, 32, 115, 101, 101, 100, 32, 49>>}

NameInit ==
    /\ pos_a \in 0..MaxPos
    /\ pos_b \in 0..MaxPos
    /\ prompt_a \in NamePrompts
    /\ prompt_b \in NamePrompts
    /\ seed_a \in SeedChoices
    /\ seed_b \in SeedChoices
    /\ name_a = <<>>
    /\ name_b = <<>>
    /\ namePc = "format"
    /\ SanIdle
    /\ GenIdle
    /\ CmpIdle
    /\ BlendIdle

\* filename = f"{idx+1}_{sanitize_filename(prompt)}_seed_{random_seed}.png",
\* for each of the two images
FormatNames ==
    /\ namePc = "format"
    /\ name_a' = filename(pos_a, prompt_a, seed_a)
    /\ name_b' = filename(pos_b, prompt_b, seed_b)
    /\ namePc' = "named"
    /\ UNCHANGED <<pos_a, prompt_a, seed_a, pos_b, prompt_b, seed_b>>
    /\ UNCHANGED <<sanVars, genVars, cmpVars, blendVars>>

\* a generate_images run, or two names of one
NamingInit == GenInit \/ NameInit

NamingNext == GenNext \/ FormatNames

SpecNaming == NamingInit /\ [][NamingNext]_vars

(***************************************************************************)
(* Either script, run on its own: what holds of both pipelines.            *)
(***************************************************************************)
PipelinesInit == GenInit \/ CmpInit

PipelinesNext == GenNext \/ CmpNext

SpecPipelines == PipelinesInit /\ [][PipelinesNext]_vars

(***************************************************************************)
(* Claims about sanitize_filename, under SpecSanitize.                     *)
(***************************************************************************)
IsFilenameChar(c) == IsAsciiAlnum(c) \/ c = 95

\* C1: every character of sanitize_filename(prompt) is an ASCII letter, an
\* ASCII digit or an underscore, whatever the prompt contains.
C1_OnlyAlnumAndUnderscore ==
    sanPc = "returned" => \A k \in 1..Len(sanitized) : IsFilenameChar(sanitized[k])

\* The prompt's kept characters, one at a time from the left, spaces already
\* turned into underscores: the fully filtered-and-substituted string.
RECURSIVE Kept(_)
Kept(s) ==
    IF s = <<>> THEN <<>>
    ELSE LET c == Head(s)
         IN  (IF c = 32 THEN <<95>>
              ELSE IF IsAsciiAlnum(c) \/ IsWhitespace(c) THEN <<c>>
              ELSE <<>>) \o Kept(Tail(s))

\* C2: sanitize_filename(prompt) has length at most 50 and is the first 50
\* characters of the filtered-and-substituted prompt (all of it when that is
\* shorter): the cut comes after the filter and the substitution.
C2_CutAfterFilter ==
    sanPc = "returned" =>
        LET kept == Kept(prompt)
        IN  /\ Len(sanitized) <= 50
            /\ Len(sanitized) = Min(50, Len(kept))
            /\ \A k \in 1..Len(sanitized) : sanitized[k] = kept[k]

\* a prompt longer than 50 that loses characters to the filter inside its
\* first 50 and still fills the 50 after it
C2_Witness ==
    /\ sanPc = "returned"
    /\ Len(prompt) > 50
    /\ Len(Kept(SubSeq(prompt, 1, 50))) < 50
    /\ Len(Kept(prompt)) > 50
    /\ Len(sanitized) = 50

(***************************************************************************)
(* Claims about generate_images, under SpecGenerate.                       *)
(***************************************************************************)
\* a number in decimal, written out digit by digit from a table of digits
RECURSIVE Decimal(_)
Decimal(n) ==
    LET digit == <<48, 49, 50, 51, 52, 53, 54, 55, 56, 57>>
    IN  (IF n >= 10 THEN Decimal(n \div 10) ELSE <<>>) \o <<digit[(n % 10) + 1]>>

\* {pos+1}_{first 50 kept characters of the prompt}_seed_{seed}.png
ExpectedName(pos, seed) ==
    LET kept == Kept(prompts[pos + 1])
    IN  Decimal(pos + 1) \o <<95>> \o SubSeq(kept, 1, Min(50, Len(kept)))
            \o <<95, 115, 101, 101, 100, 95>> \o Decimal(seed) \o <<46, 112, 110, 103>>

SavedNames == {saved[k].name : k \in 1..Len(saved)}

NoSeedTwiceForAPrompt ==
    \A j, k \in 1..Len(saved) :
        (j # k /\ saved[j].idx = saved[k].idx) => saved[j].seed # saved[k].seed

\* C3: a run in which nothing raises writes exactly K files for each of the
\* N prompts, each named {idx+1}_{sanitized prompt}_seed_{seed}.png, and when
\* no prompt draws a seed twice the names written are N*K distinct ones.
C3_KFilesPerPrompt ==
    /\ \A k \in 1..Len(saved) : saved[k].name = ExpectedName(saved[k].idx, saved[k].seed)
    /\ (genPc = "done" /\ genRaised = "none") =>
          /\ \A p \in 1..Len(prompts) :
                Cardinality({k \in 1..Len(saved) : saved[k].idx = p - 1})
                    = num_images_per_prompt
          /\ Len(saved) = Len(prompts) * num_images_per_prompt
          /\ NoSeedTwiceForAPrompt =>
                Cardinality(SavedNames) = Len(prompts) * num_images_per_prompt

\* a finished run of two equal prompts, two images each, all names distinct
C3_Witness ==
    /\ genPc = "done"
    /\ genRaised = "none"
    /\ Len(prompts) = 2
    /\ prompts[1] = prompts[2]
    /\ num_images_per_prompt = 2
    /\ NoSeedTwiceForAPrompt
    /\ Cardinality(SavedNames) = 4

\* C4: once the collaborator call or the save has raised, the run is over:
\* no seed is drawn, no call is made (the failed one is not repeated) and no
\* file is written afterwards, and what was written before stays written.
C4_FailFast ==
    [][ /\ genRaised' # "none" => genPc' = "raised"
        /\ genRaised # "none" =>
              /\ seedDraws' = seedDraws
              /\ pipeCalls' = pipeCalls
              /\ saved' = saved
        /\ Len(saved') >= Len(saved)
        /\ \A k \in 1..Len(saved) : saved'[k] = saved[k] ]_vars

\* a run that raised after a file was written and with images still to make
C4_Witness ==
    /\ genPc = "raised"
    /\ Len(saved) >= 1
    /\ Len(saved) + 1 < Len(prompts) * num_images_per_prompt

(***************************************************************************)
(* Claims about the comparison loop, under SpecCompare.                    *)
(***************************************************************************)
CmpOver == cmpPc \in {"done", "raised"}

HasCombined(name) ==
    \E k \in 1..Len(cmpSaved) :
        cmpSaved[k].name = <<99, 111, 109, 98, 105, 110, 101, 100, 95>> \o name

\* C5: when opening or processing one image fails, that image is skipped and
\* the loop goes on: at the end of the run every other .jpg or .png entry of
\* the folder has its combined output.
C5_SkipAndContinue ==
    (CmpOver /\ cmpRaised \in {"open", "pipe_1_4", "birefnet"}) =>
        \A name \in listing \ {cur_filename} :
            name \in {CatJpg, DogPng, EPng} => HasCombined(name)

\* C6: the canvas is as wide as the original and the two result panels
\* together and font_size + 10 higher than the original; with both results
\* of the original's size it is 3W by H + font_size + 10.
C6_CanvasSize ==
    cmpPc = "save" =>
        /\ combined_size[1] = original_size[1] + size_1_4[1] + size_2_0[1]
        /\ combined_size[2] = original_size[2] + 30 + 10
        /\ (size_1_4 = original_size /\ size_2_0 = original_size) =>
              combined_size = <<3 * original_size[1], original_size[2] + 40>>

\* a canvas built on a first result narrower than the original
C6_Witness ==
    /\ cmpPc = "save"
    /\ original_size = <<2, 1>>
    /\ size_1_4 = <<1, 2>>
    /\ combined_size = <<5, 41>>

\* C7: after a run in which both segmentation models returned a result for
\* every image, every entry of the folder ending in .jpg or .png has its
\* combined_{filename} in the output folder.
C7_CombinedForEveryImage ==
    (CmpOver /\ cmpRaised \notin {"open", "pipe_1_4", "birefnet", "save_io"}) =>
        \A name \in listing :
            name \in {CatJpg, DogPng, EPng} => HasCombined(name)

Processed ==
    {printed[k].file : k \in 1..Len(printed)}
        \cup {segCalls[k].file : k \in 1..Len(segCalls)}
        \cup {cmpSaved[k].source : k \in 1..Len(cmpSaved)}

\* C8: an entry is processed if and only if its name ends in .jpg or .png;
\* for any other entry (.JPG, .jpeg, .PNG among them) no segmentation model
\* is called and no file is written.
C8_OnlyJpgAndPng ==
    /\ Processed \subseteq {CatJpg, DogPng, EPng}
    /\ \A k \in 1..Len(cmpSaved) :
          cmpSaved[k].name \notin
              {<<99, 111, 109, 98, 105, 110, 101, 100, 95>> \o name :
                   name \in {AUpperJpg, BJpeg, CUpperPng, NTxt, JpgNoDot}}
    /\ \A name \in (listing \ todo) \cap {CatJpg, DogPng, EPng} :
          \E k \in 1..Len(printed) : printed[k] = [msg |-> "Processing", file |-> name]
    /\ (cmpPc \notin {"listdir", "done"}) => cur_filename \in {CatJpg, DogPng, EPng}

\* a finished run over a.JPG and dog.png: only dog.png was processed
C8_Witness ==
    /\ cmpPc = "done"
    /\ listing = {AUpperJpg, DogPng}
    /\ Len(segCalls) = 2
    /\ HasCombined(DogPng)
    /\ ~HasCombined(AUpperJpg)

\* C10: the panels are pasted font_size + 10 below the top, at 0, W and
\* W + W_A from the left, in the order original, first result, second
\* result; side by side they leave no gap, do not overlap and end at the
\* canvas' right edge.
C10_PanelsSideBySide ==
    cmpPc = "save" =>
        /\ Len(pastes) = 3
        /\ <<pastes[1].panel, pastes[2].panel, pastes[3].panel>>
              = <<"original", "green_bg_1_4", "green_bg_2_0">>
        /\ \A k \in 1..3 : pastes[k].y = 40
        /\ <<pastes[1].x, pastes[2].x, pastes[3].x>>
              = <<0, original_size[1], original_size[1] + size_1_4[1]>>
        /\ <<pastes[1].w, pastes[2].w, pastes[3].w>>
              = <<original_size[1], size_1_4[1], size_2_0[1]>>
        /\ pastes[1].x + pastes[1].w = pastes[2].x
        /\ pastes[2].x + pastes[2].w = pastes[3].x
        /\ pastes[3].x + pastes[3].w = combined_size[1]
        /\ \A j, k \in 1..3 :
              j < k => (pastes[j].x..(pastes[j].x + pastes[j].w - 1))
                           \cap (pastes[k].x..(pastes[k].x + pastes[k].w - 1)) = {}

\* three panels pasted where the first result is wider than the original
C10_Witness ==
    /\ cmpPc = "save"
    /\ original_size[1] = 1
    /\ size_1_4[1] = 2
    /\ Len(pastes) = 3
    /\ pastes[3].x = 3

(***************************************************************************)
(* Claims about the green-screen step, under SpecBlend.                    *)
(***************************************************************************)
Opaque(im) == \A k \in 1..Len(im) : im[k][4] = 255

\* C9: on an image whose alpha is 255 everywhere the blend over green gives
\* back the image's own pixels, and blending that output again gives the
\* same pixels once more.
C9_BlendIdempotentOnOpaque ==
    Opaque(image) =>
        /\ blendPc \in {"once", "twice"} => once = image
        /\ blendPc = "twice" => twice = once

\* an opaque two-pixel image, not green, blended twice
C9_Witness ==
    /\ blendPc = "twice"
    /\ Len(image) = 2
    /\ Opaque(image)
    /\ image[1] = <<255, 100, 0, 255>>
    /\ image[2] = <<100, 0, 255, 255>>
    /\ twice = image

(***************************************************************************)
(* Claims about both pipelines, under SpecPipelines.                       *)
(***************************************************************************)
\* the entries whose processing began, in order
Started == SelectSeq(printed, LAMBDA m : m.msg = "Processing")

\* generate_images: the k-th seed, the k-th call and the k-th write belong to
\* the same image, and at most one image is between its seed and its write
GenOneAtATime ==
    /\ Len(saved) <= Len(pipeCalls)
    /\ Len(pipeCalls) <= Len(seedDraws)
    /\ Len(seedDraws) <= Len(saved) + 1
    /\ \A k \in 1..Len(pipeCalls) :
          <<pipeCalls[k].idx, pipeCalls[k].i>> = <<seedDraws[k].idx, seedDraws[k].i>>
    /\ \A k \in 1..Len(saved) :
          <<saved[k].idx, saved[k].i>> = <<pipeCalls[k].idx, pipeCalls[k].i>>
    /\ \A k \in 1..(Len(seedDraws) - 1) :
          \/ seedDraws[k].idx < seedDraws[k + 1].idx
          \/ /\ seedDraws[k].idx = seedDraws[k + 1].idx
             /\ seedDraws[k].i < seedDraws[k + 1].i
    /\ genPc = "seed" => Len(seedDraws) = Len(saved)
    /\ genPc = "pipe" => (Len(seedDraws) = Len(saved) + 1 /\ Len(pipeCalls) = Len(saved))
    /\ genPc = "save" => Len(pipeCalls) = Len(saved) + 1

\* the comparison loop: the k-th entry begun is loaded, given to RMBG-1.4,
\* then to RMBG-2.0, combined and written before the next entry begins
CmpOneAtATime ==
    /\ Len(cmpSaved) <= Len(Started)
    /\ Len(Started) <= Len(cmpSaved) + 1
    /\ 2 * Len(cmpSaved) <= Len(segCalls)
    /\ Len(segCalls) <= 2 * Len(Started)
    /\ \A k \in 1..Len(segCalls) :
          /\ segCalls[k].model = (IF k % 2 = 1 THEN "RMBG-1.4" ELSE "RMBG-2.0")
          /\ segCalls[k].file = Started[(k + 1) \div 2].file
    /\ \A k \in 1..Len(cmpSaved) : cmpSaved[k].source = Started[k].file
    /\ cmpPc \in {"listdir", "done"} =>
          (Len(Started) = Len(cmpSaved) /\ Len(segCalls) = 2 * Len(cmpSaved))
    /\ cmpPc \in {"open", "pipe_1_4"} =>
          (Len(Started) = Len(cmpSaved) + 1 /\ Len(segCalls) = 2 * Len(cmpSaved))
    /\ cmpPc = "birefnet" => Len(segCalls) = 2 * Len(cmpSaved) + 1
    /\ cmpPc \in {"combine", "save"} => Len(segCalls) = 2 * Len(cmpSaved) + 2
    /\ cmpPc = "save" =>
          combined_size[1] = original_size[1] + green_1_4[1] + green_2_0[1]

\* C11: both pipelines handle one item at a time: an item's write is done
\* before the next item's seed draw or model call begins, and within an item
\* the steps come in the order seed draw or load, model call, naming or
\* compositing, write.
C11_OneItemAtATime == GenOneAtATime /\ CmpOneAtATime

\* the comparison loop at the first model call of its second entry, the
\* first entry written
C11_Witness ==
    /\ cmpPc = "pipe_1_4"
    /\ Len(cmpSaved) = 1
    /\ Len(segCalls) = 2
    /\ Len(Started) = 2

\* C12: within a run the output folder only grows: every write is under a
\* name no earlier write of the run used, so no output file is written
\* twice or overwritten.
C12_AppendOnly ==
    /\ \A j, k \in 1..Len(saved) : j < k => saved[j].name # saved[k].name
    /\ \A j, k \in 1..Len(cmpSaved) : j < k => cmpSaved[j].name # cmpSaved[k].name

(***************************************************************************)
(* More claims about generate_images, under SpecGenerate.                  *)
(***************************************************************************)
\* C13: each image has exactly one seed drawn for it, in 1..1000000; the
\* seed in the image's file name is that seed, and it is the seed installed
\* in the generator at the call that made the image.
C13_OneSeedPerImage ==
    /\ Len(seedDraws) <= Len(saved) + 1
    /\ (genPc = "done" /\ genRaised = "none") => Len(seedDraws) = Len(saved)
    /\ \A k \in 1..Len(seedDraws) : seedDraws[k].seed \in 1..1000000
    /\ \A k \in 1..Len(pipeCalls) :
          /\ pipeCalls[k].seed = seedDraws[k].seed
          /\ <<pipeCalls[k].idx, pipeCalls[k].i>> = <<seedDraws[k].idx, seedDraws[k].i>>
    /\ \A k \in 1..Len(saved) :
          /\ saved[k].seed = pipeCalls[k].seed
          /\ <<saved[k].idx, saved[k].i>> = <<pipeCalls[k].idx, pipeCalls[k].i>>
          /\ EndsWith(saved[k].name,
                      <<95, 115, 101, 101, 100, 95>> \o Decimal(seedDraws[k].seed)
                          \o <<46, 112, 110, 103>>)

\* a finished run of two images, the first on the highest seed, the second
\* on the lowest
C13_Witness ==
    /\ genPc = "done"
    /\ Len(saved) = 2
    /\ seedDraws[1].seed = 1000000
    /\ seedDraws[2].seed = 1
    /\ pipeCalls[2].seed = 1
    /\ saved[2].seed = 1

(***************************************************************************)
(* Claims about the file names of a run, under SpecNaming.                 *)
(***************************************************************************)
\* C14: two images of different prompt positions never get the same file
\* name, whatever their prompts and seeds (sanitized prompts starting with
\* a digit or an underscore included); so two writes of a run share a name
\* only when they are of the same position and drew the same seed.
C14_PositionsKeepNamesApart ==
    /\ (namePc = "named" /\ pos_a # pos_b) => name_a # name_b
    /\ \A j, k \in 1..Len(saved) :
          (j < k /\ saved[j].name = saved[k].name) =>
              (saved[j].idx = saved[k].idx /\ saved[j].seed = saved[k].seed)

\* the first prompt "1x" and the eleventh prompt "x", on the same seed
C14_Witness ==
    /\ namePc = "named"
    /\ pos_a = 0
    /\ prompt_a = <<49, 120>>
    /\ pos_b = 10
    /\ prompt_b = <<120>>
    /\ seed_a = seed_b
    /\ name_a # name_b

====
